---------------------------- MODULE Spec2Model ----------------------------
(***************************************************************************)
(* A model of gitpy-versioning (src/__init__.py): get_version and the      *)
(* functions it calls.  Text is a sequence of one-character strings, so    *)
(* that slicing, splitting, searching and regular-expression matching are  *)
(* computed character by character, as the Python code computes them.      *)
(***************************************************************************)
EXTENDS Integers, Sequences, FiniteSets, TLC

VARIABLES
    pc,       \* where get_version is: "idle", a source position, "done"
    file,     \* contents of the fallback file v_file, or NoFile
    cwd,      \* the process working directory
    lastOK,   \* version written by the latest resolution that wrote it, or None
    call,     \* arguments, repository and fault of the call in progress
    loc,      \* the local variables of get_version and git_info
    trace,    \* the git commands the call has run, in order
    ret,      \* how the call ended: outcome, value, exception
    vtag,     \* validate_tag check: the tag
    vpkg,     \* validate_tag check: the package name or None
    vres      \* validate_tag check: "unchecked", "ok" or "InvalidTag"

vars == <<pc, file, cwd, lastOK, call, loc, trace, ret, vtag, vpkg, vres>>

----------------------------------------------------------------------------
(* Bounds of the model *)

\* commits since the tag range over 0..MaxCommits
MaxCommits == 2
\* tags handed to validate_tag are built from at most MaxTokens tokens
MaxTokens == 3

----------------------------------------------------------------------------
(* Characters and Python's string operations *)

None == <<"<None>">>
NoFile == <<"<no file>">>

DigitSeq == <<"0", "1", "2", "3", "4", "5", "6", "7", "8", "9">>
Digits == {DigitSeq[i] : i \in 1..10}
Lower == {"a", "b", "c", "d", "e", "f", "g", "h", "i", "j", "k", "l", "m",
          "n", "o", "p", "q", "r", "s", "t", "u", "v", "w", "x", "y", "z"}
Upper == {"A", "B", "C", "D", "E", "F", "G", "H", "I", "J", "K", "L", "M",
          "N", "O", "P", "Q", "R", "S", "T", "U", "V", "W", "X", "Y", "Z"}
Whitespace == {" ", "\t", "\n", "\r"}

\* s[a:] and s[:b] with 0-based non-negative offsets
From(s, a) == IF a >= Len(s) THEN <<>> ELSE SubSeq(s, a + 1, Len(s))
Upto(s, b) == IF b >= Len(s) THEN s ELSE SubSeq(s, 1, b)
\* s[:-k] for k > 0 (s[:-0] is s[:0], the empty string)
DropLast(s, k) == IF k >= Len(s) THEN <<>> ELSE SubSeq(s, 1, Len(s) - k)

AllIn(s, set) == \A i \in 1..Len(s) : s[i] \in set

StartsWith(s, p) == Len(p) <= Len(s) /\ SubSeq(s, 1, Len(p)) = p

\* str.find: the lowest 0-based index of sub in s, or -1
Find(s, sub) ==
    LET hits == {i \in 0..(Len(s) - Len(sub)) : SubSeq(s, i + 1, i + Len(sub)) = sub}
    IN IF hits = {} THEN -1 ELSE CHOOSE i \in hits : \A j \in hits : i <= j

\* str.strip()
RECURSIVE LStrip(_)
LStrip(s) == IF s # <<>> /\ Head(s) \in Whitespace THEN LStrip(Tail(s)) ELSE s
RECURSIVE RStrip(_)
RStrip(s) ==
    IF s # <<>> /\ s[Len(s)] \in Whitespace THEN RStrip(SubSeq(s, 1, Len(s) - 1)) ELSE s
Strip(s) == RStrip(LStrip(s))

\* str.split(sep) for a non-empty separator: empty pieces are kept
RECURSIVE Split(_, _)
Split(s, sep) ==
    LET i == Find(s, sep)
    IN IF i < 0 THEN <<s>>
       ELSE <<Upto(s, i)>> \o Split(From(s, i + Len(sep)), sep)

\* str.split(): pieces between runs of whitespace, no empty piece
RECURSIVE SplitWs(_)
SplitWs(s) ==
    LET t == LStrip(s)
        ends == {i \in 1..Len(t) : t[i] \in Whitespace}
        e == IF ends = {} THEN Len(t) + 1 ELSE CHOOSE i \in ends : \A j \in ends : i <= j
    IN IF t = <<>> THEN <<>>
       ELSE <<SubSeq(t, 1, e - 1)>> \o SplitWs(From(t, e - 1))

\* str.replace(old, ''): every non-overlapping occurrence, left to right
RECURSIVE Remove(_, _)
Remove(s, old) ==
    LET i == Find(s, old)
    IN IF old = <<>> \/ i < 0 THEN s
       ELSE Upto(s, i) \o Remove(From(s, i + Len(old)), old)

\* str.replace("'", "")
Unquote(s) == Remove(s, <<"'">>)

\* '\n'.join(lines)
RECURSIVE JoinLines(_)
JoinLines(ls) ==
    IF ls = <<>> THEN <<>>
    ELSE IF Len(ls) = 1 THEN ls[1]
    ELSE ls[1] \o <<"\n">> \o JoinLines(Tail(ls))

\* the elements of a list that satisfy a comprehension's condition, in order
RECURSIVE Filter(_, _)
Filter(ls, keep) ==
    IF ls = <<>> THEN <<>>
    ELSE (IF keep[1] THEN <<ls[1]>> ELSE <<>>) \o Filter(Tail(ls), Tail(keep))

DigitVal(c) == (CHOOSE i \in 1..10 : DigitSeq[i] = c) - 1

\* int(s) of a string of digits
RECURSIVE IntOf(_)
IntOf(s) == IF s = <<>> THEN 0 ELSE 10 * IntOf(SubSeq(s, 1, Len(s) - 1)) + DigitVal(s[Len(s)])

\* int(s): surrounding whitespace is ignored; anything but digits is a ValueError
IsIntLiteral(s) == Strip(s) # <<>> /\ AllIn(Strip(s), Digits)

\* os.path.dirname and os.path.basename: split after the last '/'
LastSlash(path) ==
    LET at == {i \in 1..Len(path) : path[i] = "/"}
    IN IF at = {} THEN 0 ELSE CHOOSE i \in at : \A j \in at : j <= i
RECURSIVE RStripSlash(_)
RStripSlash(s) ==
    IF s # <<>> /\ s[Len(s)] = "/" THEN RStripSlash(SubSeq(s, 1, Len(s) - 1)) ELSE s
dirname(path) ==
    LET head == Upto(path, LastSlash(path))
    IN IF head # <<>> /\ ~AllIn(head, {"/"}) THEN RStripSlash(head) ELSE head
basename(path) == From(path, LastSlash(path))

\* str(n) for n >= 0
RECURSIVE StrOf(_)
StrOf(n) == IF n < 10 THEN <<DigitSeq[n + 1]>> ELSE StrOf(n \div 10) \o <<DigitSeq[(n % 10) + 1]>>


----------------------------------------------------------------------------
(* Regular expressions.  A pattern is matched from a set of offsets (the   *)
(* number of characters consumed so far) and yields the set of offsets at  *)
(* which a match of it can end, which is what re.match explores by         *)
(* backtracking.                                                           *)

\* a literal
ReLit(s, P, lit) ==
    {p + Len(lit) : p \in {q \in P : q + Len(lit) <= Len(s)
                                     /\ SubSeq(s, q + 1, q + Len(lit)) = lit}}

\* [set]+
RePlus(s, P, set) ==
    {j \in 1..Len(s) : \E i \in P : i < j /\ \A k \in (i + 1)..j : s[k] \in set}

\* [set]*
ReStar(s, P, set) == P \cup RePlus(s, P, set)

\* $ : the end of the string, or just before a newline that ends it
ReEnd(s, P) ==
    {p \in P : p = Len(s) \/ (p = Len(s) - 1 /\ s[Len(s)] = "\n")}

\* INTEGER = '[0-9]+'
INTEGER(s, P) == RePlus(s, P, Digits)

\* (?:\.INTEGER)*
RECURSIVE DotIntegers(_, _)
DotIntegers(s, P) ==
    LET more == INTEGER(s, ReLit(s, P, <<".">>))
    IN IF more \subseteq P THEN P ELSE DotIntegers(s, P \cup more)

\* FINAL = INTEGER(?:\.INTEGER)*
FINAL(s, P) == DotIntegers(s, INTEGER(s, P))

\* PRE = (a|b|c)INTEGER
PRE(s, P) ==
    INTEGER(s, ReLit(s, P, <<"a">>) \cup ReLit(s, P, <<"b">>) \cup ReLit(s, P, <<"c">>))

\* POST = \.postINTEGER
POST(s, P) == INTEGER(s, ReLit(s, P, <<".", "p", "o", "s", "t">>))

\* DEV = \.devINTEGER
DEV(s, P) == INTEGER(s, ReLit(s, P, <<".", "d", "e", "v">>))

\* re.match(PEP440, s) with PEP440 = FINAL(?:PRE)?(?:POST)?(?:DEV)?\s*$
MatchPEP440(s) ==
    LET f == FINAL(s, {0})
        p == f \cup PRE(s, f)
        q == p \cup POST(s, p)
        d == q \cup DEV(s, q)
    IN ReEnd(s, ReStar(s, d, Whitespace)) # {}

\* ALPHA_NUM_PERIOD_UNDER_HYPHEN = '[A-Za-z0-9.\-\_]+$'
ALPHA_NUM_PERIOD_UNDER_HYPHEN == Lower \cup Upper \cup Digits \cup {".", "-", "_"}

\* ALPHA_PERIOD_PLUS_UNDER_HYPHEN = '[A-Za-z.\+\-\_]+'
ALPHA_PERIOD_PLUS_UNDER_HYPHEN == Lower \cup Upper \cup {".", "+", "-", "_"}

\* re.split('[set]+', s): the pieces between the maximal runs of set
RECURSIVE ReSplit(_, _)
ReSplit(s, set) ==
    LET seps == {i \in 1..Len(s) : s[i] \in set}
        b == CHOOSE i \in seps : \A j \in seps : i <= j
        after == {i \in b..Len(s) : s[i] \notin set}
        e == IF after = {} THEN Len(s) + 1 ELSE CHOOSE i \in after : \A j \in after : i <= j
    IN IF seps = {} THEN <<s>>
       ELSE <<SubSeq(s, 1, b - 1)>> \o ReSplit(From(s, e - 1), set)

----------------------------------------------------------------------------
(* The pure functions of src/__init__.py.  An operator that can raise      *)
(* yields [exc |-> the exception's class or "none", val |-> the value].    *)

Ok(v) == [exc |-> "none", val |-> v]
Raise(e) == [exc |-> e, val |-> None]

valid_local_ver(version) ==
    ReEnd(version, RePlus(version, {0}, ALPHA_NUM_PERIOD_UNDER_HYPHEN)) # {}

\* increment_rightmost adding 1 whatever the number
increment_rightmost_by_one(version, number) ==
    LET pieces == ReSplit(version, ALPHA_PERIOD_PLUS_UNDER_HYPHEN)
        num_str == pieces[Len(pieces)]
    IN IF ~IsIntLiteral(num_str) THEN Raise("ValueError")
       ELSE Ok(DropLast(version, Len(num_str)) \o StrOf(IntOf(Strip(num_str)) + 1))

increment_rightmost(version, number) ==
    LET pieces == ReSplit(version, ALPHA_PERIOD_PLUS_UNDER_HYPHEN)
        num_str == pieces[Len(pieces)]
    IN IF ~IsIntLiteral(num_str) THEN Raise("ValueError")
       ELSE Ok(DropLast(version, Len(num_str)) \o StrOf(IntOf(Strip(num_str)) + number))

is_dev(version) == Find(version, <<".", "d", "e", "v">>) > 0

\* validate_tag dropping len(pkg_name) + 1 characters without looking at them
validate_tag_unchecked_prefix(tag, pkg_name) ==
    IF pkg_name = None
    THEN IF ~MatchPEP440(tag) THEN "InvalidTag" ELSE "none"
    ELSE IF ~MatchPEP440(From(tag, Len(pkg_name) + 1)) THEN "InvalidTag" ELSE "none"

validate_tag(tag, pkg_name) ==
    IF pkg_name = None
    THEN IF ~MatchPEP440(tag) THEN "InvalidTag" ELSE "none"
    ELSE IF StartsWith(tag, pkg_name \o <<"-">>)
         THEN IF ~MatchPEP440(From(tag, Len(pkg_name) + 1)) THEN "InvalidTag" ELSE "none"
         ELSE "InvalidTag"

----------------------------------------------------------------------------
(* The repository and the processes git() spawns.  A call of get_version  *)
(* is [pkg_name, pkg_file, repo, fault]: repo holds the facts git reports  *)
(* and fault the one thing that goes wrong during the call, if any (no     *)
(* query follows the first failure, so one fault per call covers all).     *)

S_m == <<"m">>
S_d == <<"d">>
S_fx == <<"f", "-", "x">>
S_f_x == <<"f", "/", "x">>
S_p == <<"p">>
T_1_9 == <<"1", ".", "9">>
T_1_0_dev9 == <<"1", ".", "0", ".", "d", "e", "v", "9">>
T_1 == <<"1">>
T_p_1_9 == <<"p", "-", "1", ".", "9">>
T_p_2_dev1 == <<"p", "-", "2", ".", "d", "e", "v", "1">>
T_0_8 == <<"0", ".", "8">>
T_p_0_8 == <<"p", "-", "0", ".", "8">>

Branches == {S_m, S_fx, S_f_x}
TagBranches == {S_m, S_d}
BaseTags == {T_1_9, T_1_0_dev9, T_1, T_p_1_9, T_p_2_dev1}
PkgNames == {None, S_p}
\* the tags older than the base tag, in tagger-date order
NominalOlder == <<T_0_8>>
OlderTags == {NominalOlder, <<T_p_0_8>>, <<>>}
\* the tags of repository r, in tagger-date order
RepoTags(r) == r.older \o <<r.tag>>

CallerFile == <<"/", "p", "/", "s">>
PkgFiles == {None, <<"/", "q", "/", "s">>, <<"s">>}
\* the directories that exist; the caller runs in /w
Dir_w == <<"/", "w">>
Dirs == {Dir_w, <<"/", "p">>, <<"/", "q">>}

TaggedCommit == <<"c", "0", "f", "f", "e", "e", "1", "2">>
HeadCommit(n) ==
    IF n = 0 THEN TaggedCommit ELSE <<"a", "b", "1", "d", "e", "f", "0">> \o StrOf(n)
RootCommit == <<"0", "0", "0", "0", "0", "0", "0", "0">>
\* the branch git show-branch lists beside the current one
Other(branch) == IF branch = S_m THEN S_d ELSE S_m

Queries == {"ls-files", "branch", "describe --long", "describe --abbrev=0", "rev-list",
            "log", "reflog", "show-branch", "for-each-ref"}
NoFault == [kind |-> "none", at |-> "none"]
Faults ==
    {NoFault} \cup {[kind |-> "stderr", at |-> q] : q \in Queries}
    \cup {[kind |-> "spawn", at |-> "ls-files"], [kind |-> "open", at |-> "v_file"]}

Repos ==
    [tag : BaseTags, commits : 0..MaxCommits, branch : Branches,
     tagBranch : TagBranches, older : OlderTags]

\* Every repository is resolved without a fault (the older tags vary where the
\* tags are listed: the tag is on the parent branch); faults and pkg_file are
\* varied on the repositories tagged 1.9 with the nominal older tags.
Calls ==
    {c \in [pkg_name : PkgNames, pkg_file : PkgFiles, repo : Repos, fault : Faults] :
        \/ /\ c.fault = NoFault
           /\ c.pkg_file = None
           /\ c.repo.older = NominalOlder \/ c.repo.tagBranch = Other(c.repo.branch)
        \/ /\ c.pkg_name = None
           /\ c.repo.tag = T_1_9
           /\ c.repo.older = NominalOlder
           /\ c.fault = NoFault \/ c.pkg_file = None}

\* what git writes to stdout: 'tag-N-gHASH' for describe --long, and so on
TagLine(t) ==
    <<"'", "r", "e", "f", "s", "/", "t", "a", "g", "s", "/">> \o t \o <<" ", "M", "o", "n", "'">>
ReflogLine(commit, branch, n) ==
    Upto(commit, 7) \o <<" ", "r", "e", "f", "s", "/", "h", "e", "a", "d", "s", "/">> \o branch
    \o <<"@", "{">> \o StrOf(n) \o <<"}", ":", " ", "c", "o", "m", "m", "i", "t", ":", " ", "x">>
Stdout(c, name) ==
    LET r == c.repo
        base == IF c.pkg_file = None THEN CallerFile ELSE c.pkg_file
        nl == <<"\n">>
    IN CASE name = "ls-files" -> basename(base) \o nl
         [] name = "branch" ->
              <<" ", " ">> \o Other(r.branch) \o nl \o <<"*", " ">> \o r.branch \o nl
         [] name = "describe --long" ->
              r.tag \o <<"-">> \o StrOf(r.commits) \o <<"-", "g">>
              \o Upto(HeadCommit(r.commits), 7) \o nl
         [] name = "describe --abbrev=0" -> r.tag \o nl
         [] name = "rev-list" -> TaggedCommit \o nl \o RootCommit \o nl
         [] name = "log" -> <<"'">> \o HeadCommit(r.commits) \o <<"'">>
         [] name = "reflog" ->
              (IF r.commits = 0 THEN <<>>
               ELSE ReflogLine(HeadCommit(r.commits), r.branch, 0) \o nl)
              \o ReflogLine(TaggedCommit, r.tagBranch, 1) \o nl
              \o ReflogLine(RootCommit, r.tagBranch, 2) \o nl
         [] name = "show-branch" ->
              <<"*", " ", "[">> \o r.branch \o <<"]", " ", "x">> \o nl
              \o <<" ", "!", " ", "[">> \o Other(r.branch) \o <<"]", " ", "y">> \o nl
              \o <<"-", "-">> \o nl
              \o <<"*", " ", " ", "[">> \o r.branch \o <<"]", " ", "x">> \o nl
              \o <<"*", "+", " ", "[">> \o Other(r.branch) \o <<"]", " ", "y">> \o nl
         [] name = "for-each-ref" ->
              JoinLines([i \in 1..Len(RepoTags(r)) |-> TagLine(RepoTags(r)[i])]) \o nl

----------------------------------------------------------------------------
(* The functions that query git.  w is the process state a call can        *)
(* change: [cwd |-> the working directory, trace |-> the git commands run  *)
(* so far].  Each yields [w, exc, val].                                    *)

Done(w, v) == [w |-> w, exc |-> "none", val |-> v]
Fail(w, e) == [w |-> w, exc |-> e, val |-> None]

\* git() without its finally clause
RestoreCwdNever(w, saved) == w

\* the finally clause of git(): back to the saved directory, if one was saved
RestoreCwd(w, saved) == IF saved # None THEN [w EXCEPT !.cwd = saved] ELSE w

git(c, w, cmd, dir, input) ==
    LET saved == IF dir # None THEN w.cwd ELSE None
        chdirFails == dir # None /\ dir \notin Dirs
        spawnFails == c.fault = [kind |-> "spawn", at |-> cmd]
        w1 == IF dir # None /\ ~chdirFails THEN [w EXCEPT !.cwd = dir] ELSE w
        w2 == IF chdirFails \/ spawnFails THEN w1
              ELSE [w1 EXCEPT !.trace = Append(@, cmd)]
        w3 == RestoreCwd(w2, saved)
        stderr == c.fault = [kind |-> "stderr", at |-> cmd]
    IN IF chdirFails \/ spawnFails THEN Fail(w3, "OSError")
       ELSE IF stderr
            THEN IF ~input THEN Fail(w3, "EnvironmentError") ELSE Fail(w3, "InvalidCommand")
            ELSE Done(w3, Strip(Stdout(c, cmd)))

call_git_describe(c, w, abbrev) ==
    git(c, w, IF abbrev # None THEN "describe --abbrev=0" ELSE "describe --long", None, FALSE)

get_branch(c, w) ==
    LET r == git(c, w, "branch", None, FALSE)
        lines == Split(r.val, <<"\n">>)
        starred == Filter(lines, [i \in 1..Len(lines) |-> StartsWith(lines[i], <<"*">>)])
        words == SplitWs(starred[1])
    IN IF r.exc # "none" THEN r
       ELSE IF starred = <<>> THEN Fail(r.w, "IndexError")
       ELSE Done(r.w, words[Len(words)])

get_parent(c, w, branch) ==
    LET r == git(c, w, "show-branch", None, FALSE)
        lines == Split(r.val, <<"\n">>)
        found == Filter(lines, [i \in 1..Len(lines) |->
                                  Find(lines[i], <<"*">>) >= 0 /\ Find(lines[i], branch) < 0])
        parts == Split(found[1], <<"[">>)
    IN IF r.exc # "none" THEN r
       ELSE IF found = <<>> \/ Len(parts) < 2 THEN Fail(r.w, "IndexError")
       ELSE Done(r.w, Split(parts[2], <<"]">>)[1])

get_non_dev_tag(c, w, pkg_name) ==
    LET r == git(c, w, "for-each-ref", None, FALSE)
        lines == Split(r.val, <<"\n">>)
        blank == \E i \in 1..Len(lines) : SplitWs(lines[i]) = <<>>
        found == Filter(lines, [i \in 1..Len(lines) |->
                                  Find(SplitWs(lines[i])[1], <<".", "d", "e", "v">>) < 0])
        tag == From(Split(found[Len(found)], <<" ">>)[1], 11)
    IN IF r.exc # "none" THEN r
       ELSE IF blank \/ found = <<>> THEN Fail(r.w, "IndexError")
       ELSE IF validate_tag(tag, pkg_name) # "none" THEN Fail(r.w, "InvalidTag")
       ELSE Done(r.w, tag)

tag2cmt(c, w, tag) ==
    LET r == git(c, w, "rev-list", None, TRUE)
    IN IF r.exc # "none" THEN r ELSE Done(r.w, Split(r.val, <<"\n">>)[1])

get_commit(c, w) ==
    LET r == git(c, w, "log", None, FALSE)
    IN IF r.exc # "none" THEN r ELSE Done(r.w, Unquote(r.val))

cmt2branch(c, w, commit) ==
    LET r == git(c, w, "reflog", None, FALSE)
        lines == Split(r.val, <<"\n">>)
        found == Filter(lines, [i \in 1..Len(lines) |-> Find(lines[i], Upto(commit, 7)) >= 0])
        words == Split(found[1], <<" ">>)
        path == Split(words[2], <<"/">>)
    IN IF r.exc # "none" THEN r
       ELSE IF found = <<>> \/ Len(words) < 2 \/ Len(path) < 3 THEN Fail(r.w, "IndexError")
       ELSE Done(r.w, DropLast(path[3], 5))

\* the commits and sha of 'git describe --long', lines 189-195 and 200-201
ParseDescribe(long_tag, base_tag) ==
    LET raw_version_str == Remove(long_tag, base_tag)
        pieces == Split(raw_version_str, <<"-">>)
        parts == Filter(pieces, [i \in 1..Len(pieces) |-> pieces[i] # <<>>])
    IN IF Len(parts) # 2 THEN Raise("InvalidTag")
       ELSE IF ~IsIntLiteral(parts[1]) THEN Raise("ValueError")
       ELSE Ok([commits |-> IntOf(Strip(parts[1])), sha |-> From(parts[2], 1)])

verify_repository(c, w, pkg_file) ==
    git(c, w, "ls-files", dirname(pkg_file), FALSE)

----------------------------------------------------------------------------
(* get_version, one action per query or statement.  pc names the next      *)
(* statement; an exception moves to "except" with its class in loc.exc.    *)

S_unknown == <<"u", "n", "k", "n", "o", "w", "n">>
S_git == <<"+", "g", "i", "t", ".">>
S_dotdev == <<".", "d", "e", "v">>
S_9_9_9_nl == <<"9", ".", "9", ".", "9", "\n">>

W == [cwd |-> cwd, trace |-> trace]

NoLocals ==
    [pkg_file |-> None, file0 |-> None, cwd0 |-> None, branch |-> None, long_tag |-> None,
     tag |-> None, commits |-> 0, sha |-> None, tagged_cmt |-> None, cmt |-> None,
     origin |-> None, parent |-> None, nondev |-> None, version |-> None, exc |-> "none"]
NoResult == [outcome |-> "none", value |-> None, exc |-> "none", wrote |-> FALSE]

Init ==
    /\ pc = "idle"
    /\ file \in {NoFile, S_9_9_9_nl}
    /\ cwd = Dir_w
    /\ lastOK = None
    /\ call = None
    /\ loc = NoLocals
    /\ trace = <<>>
    /\ ret = NoResult
    /\ vtag = <<>>
    /\ vpkg = None
    /\ vres = "none"

\* the effect of a query r = [w, exc, val]: on an exception to the handler,
\* otherwise on to statement next with the locals l
Step(r, next, l) ==
    /\ cwd' = r.w.cwd
    /\ trace' = r.w.trace
    /\ IF r.exc # "none"
       THEN pc' = "except" /\ loc' = [loc EXCEPT !.exc = r.exc]
       ELSE pc' = next /\ loc' = l
    /\ UNCHANGED <<file, lastOK, call, ret, vtag, vpkg, vres>>

\* a statement that runs no query: to next with the locals l
Goto(next, l) ==
    /\ pc' = next
    /\ loc' = l
    /\ UNCHANGED <<file, cwd, lastOK, call, trace, ret, vtag, vpkg, vres>>

\* lines 279-284: the call, pkg_file defaulting to the caller's file, and
\* verify_repository(pkg_file)
VerifyRepository ==
    /\ pc = "idle"
    /\ \E c \in Calls :
         LET pkg_file == IF c.pkg_file = None THEN CallerFile ELSE c.pkg_file
             r == verify_repository(c, [cwd |-> cwd, trace |-> <<>>], pkg_file)
             l == [NoLocals EXCEPT !.pkg_file = pkg_file, !.file0 = file, !.cwd0 = cwd]
         IN /\ call' = c
            /\ cwd' = r.w.cwd
            /\ trace' = r.w.trace
            /\ IF r.exc # "none"
               THEN pc' = "except" /\ loc' = [l EXCEPT !.exc = r.exc]
               ELSE pc' = "get_branch" /\ loc' = l
    /\ ret' = NoResult
    /\ UNCHANGED <<file, lastOK, vtag, vpkg, vres>>

\* git_info, line 179
GetBranch ==
    /\ pc = "get_branch"
    /\ LET r == get_branch(call, W)
       IN Step(r, "describe_long", [loc EXCEPT !.branch = r.val])

\* git_info, line 183
DescribeLong ==
    /\ pc = "describe_long"
    /\ LET r == call_git_describe(call, W, None)
       IN Step(r, "describe_abbrev", [loc EXCEPT !.long_tag = r.val])

\* git_info, lines 184-201: the base tag, validated, and the describe string parsed
DescribeAbbrev ==
    /\ pc = "describe_abbrev"
    /\ LET r == call_git_describe(call, W, <<"0">>)
           parsed == ParseDescribe(loc.long_tag, r.val)
           checked ==
               IF r.exc # "none" THEN r
               ELSE IF validate_tag(r.val, call.pkg_name) # "none" THEN Fail(r.w, "InvalidTag")
               ELSE IF parsed.exc # "none" THEN Fail(r.w, parsed.exc)
               ELSE r
       IN Step(checked, "tag2cmt",
               [loc EXCEPT !.tag = r.val, !.commits = parsed.val.commits,
                           !.sha = parsed.val.sha])

\* git_info, line 202
Tag2Cmt ==
    /\ pc = "tag2cmt"
    /\ LET r == tag2cmt(call, W, loc.tag)
       IN Step(r, "get_commit", [loc EXCEPT !.tagged_cmt = r.val])

\* git_info, line 203
GetCommit ==
    /\ pc = "get_commit"
    /\ LET r == get_commit(call, W)
       IN Step(r, "L288", [loc EXCEPT !.cmt = r.val])

\* lines 288-290: the latest commit is tagged
ExactRelease ==
    /\ pc = "L288"
    /\ loc.cmt = loc.tagged_cmt
    /\ Goto("write", [loc EXCEPT !.version = loc.tag])

\* line 291 reached whether or not the latest commit is tagged
Cmt2BranchAlways ==
    /\ pc = "L288"
    /\ LET r == cmt2branch(call, W, loc.tagged_cmt)
       IN Step(r, "get_parent", [loc EXCEPT !.origin = r.val])

\* line 291, left operand
Cmt2Branch ==
    /\ pc = "L288"
    /\ loc.cmt # loc.tagged_cmt
    /\ LET r == cmt2branch(call, W, loc.tagged_cmt)
       IN Step(r, "get_parent", [loc EXCEPT !.origin = r.val])

\* line 291, right operand
GetParent ==
    /\ pc = "get_parent"
    /\ LET r == get_parent(call, W, loc.branch)
       IN Step(r, "L291", [loc EXCEPT !.parent = r.val])

\* lines 291-300: the most recent tag is on the parent branch
BranchLocal ==
    /\ pc = "L291"
    /\ loc.origin = loc.parent
    /\ IF valid_local_ver(loc.branch)
       THEN LET r == get_non_dev_tag(call, W, call.pkg_name)
            IN Step(r, "write",
                    [loc EXCEPT !.nondev = r.val,
                                !.version = r.val \o S_git \o loc.branch \o <<".">>
                                            \o StrOf(loc.commits) \o <<".">> \o loc.sha])
       ELSE Goto("except", [loc EXCEPT !.exc = "InvalidBranch"])

\* lines 302-305: the most recent tag is a development tag
DevTag ==
    /\ pc = "L291"
    /\ loc.origin # loc.parent
    /\ is_dev(loc.tag)
    /\ LET v == increment_rightmost(loc.tag, loc.commits)
       IN IF v.exc # "none" THEN Goto("except", [loc EXCEPT !.exc = v.exc])
          ELSE Goto("write", [loc EXCEPT !.version = v.val])

\* lines 307-313: a new development window
NewDevWindow ==
    /\ pc = "L291"
    /\ loc.origin # loc.parent
    /\ ~is_dev(loc.tag)
    /\ LET v == increment_rightmost(loc.tag, 1)
       IN IF v.exc # "none" THEN Goto("except", [loc EXCEPT !.exc = v.exc])
          ELSE Goto("write", [loc EXCEPT !.version = v.val \o S_dotdev \o StrOf(loc.commits)])

\* the file opened with 'a': the version lands after the old contents
WriteFileAppend(old, version) == IF old = NoFile THEN version ELSE old \o version

\* open(v_file, 'w') and f.write(version): the new contents of the file
WriteFile(old, version) == version

\* lines 315-316 and 326: the version is written, then returned
WriteVersion ==
    /\ pc = "write"
    /\ IF call.fault.kind = "open"
       THEN /\ pc' = "except"
            /\ loc' = [loc EXCEPT !.exc = "IOError"]
            /\ UNCHANGED <<file, lastOK, ret>>
       ELSE /\ pc' = "done"
            /\ file' = WriteFile(file, loc.version)
            /\ lastOK' = loc.version
            /\ ret' = [outcome |-> "returned", value |-> loc.version,
                       exc |-> "none", wrote |-> TRUE]
            /\ loc' = loc
    /\ UNCHANGED <<cwd, call, trace, vtag, vpkg, vres>>

\* the file read without .strip()
ReadFallbackRaw(f) == IF f # NoFile THEN f ELSE S_unknown

\* lines 320-324: the file's contents stripped, or 'unknown'
ReadFallback(f) == IF f # NoFile THEN Strip(f) ELSE S_unknown

\* the classes 'except EnvironmentError' catches: itself and its subclasses
EnvironmentErrors == {"EnvironmentError", "OSError", "IOError"}

\* lines 318-326: not a git repository, fall back to the file
Fallback ==
    /\ pc = "except"
    /\ loc.exc \in EnvironmentErrors
    /\ pc' = "done"
    /\ ret' = [outcome |-> "returned", value |-> ReadFallback(file),
               exc |-> "none", wrote |-> FALSE]
    /\ UNCHANGED <<file, cwd, lastOK, call, loc, trace, vtag, vpkg, vres>>

\* any other exception leaves get_version
Propagate ==
    /\ pc = "except"
    /\ loc.exc \notin EnvironmentErrors
    /\ pc' = "done"
    /\ ret' = [outcome |-> "raised", value |-> None, exc |-> loc.exc, wrote |-> FALSE]
    /\ UNCHANGED <<file, cwd, lastOK, call, loc, trace, vtag, vpkg, vres>>

\* the caller has the result; nothing of the call but the file outlives it
Return ==
    /\ pc = "done"
    /\ pc' = "idle"
    /\ call' = None
    /\ loc' = NoLocals
    /\ trace' = <<>>
    /\ ret' = NoResult
    /\ UNCHANGED <<file, cwd, lastOK, vtag, vpkg, vres>>

Next ==
    \/ VerifyRepository \/ GetBranch \/ DescribeLong \/ DescribeAbbrev \/ Tag2Cmt
    \/ GetCommit \/ ExactRelease \/ Cmt2Branch \/ GetParent \/ BranchLocal \/ DevTag
    \/ NewDevWindow \/ WriteVersion \/ Fallback \/ Propagate \/ Return

Spec == Init /\ [][Next]_vars

----------------------------------------------------------------------------
(* validate_tag on its own: every tag built from at most MaxTokens tokens, *)
(* with and without a package name.                                        *)

Tokens ==
    {<<"1">>, <<".", "2">>, <<"a", "1">>, <<".", "p", "o", "s", "t", "2">>,
     <<".", "d", "e", "v", "3">>, <<" ">>, <<"\n">>, <<"x">>, <<"p", "-">>, <<".">>,
     <<"c">>, <<"v">>}

RECURSIVE Concat(_)
Concat(ss) == IF ss = <<>> THEN <<>> ELSE Head(ss) \o Concat(Tail(ss))

TagInputs == {Concat(ts) : ts \in UNION {[1..n -> Tokens] : n \in 0..MaxTokens}}

InitValidate ==
    /\ pc = "idle"
    /\ file = NoFile
    /\ cwd = Dir_w
    /\ lastOK = None
    /\ call = None
    /\ loc = NoLocals
    /\ trace = <<>>
    /\ ret = NoResult
    /\ vtag \in TagInputs
    /\ vpkg \in PkgNames
    /\ vres = "none"

ValidateTag ==
    /\ vres = "none"
    /\ vres' = (IF validate_tag(vtag, vpkg) = "none" THEN "ok" ELSE "InvalidTag")
    /\ UNCHANGED <<pc, file, cwd, lastOK, call, loc, trace, ret, vtag, vpkg>>

NextValidate == ValidateTag

SpecValidate == InitValidate /\ [][NextValidate]_vars

----------------------------------------------------------------------------
(* What the claims speak of, stated without the code's operators.          *)

Contains(s, sub) ==
    \E i \in 1..(Len(s) - Len(sub) + 1) : SubSeq(s, i, i + Len(sub) - 1) = sub

Range(q) == {q[i] : i \in 1..Len(q)}

IsPrefix(q, full) == Len(q) <= Len(full) /\ \A i \in 1..Len(q) : q[i] = full[i]

IsInteger(s) == s # <<>> /\ \A i \in 1..Len(s) : s[i] \in Digits

\* FINAL: integers separated by single periods
IsFinalPart(s) ==
    /\ s # <<>>
    /\ \A i \in 1..Len(s) : s[i] \in Digits \cup {"."}
    /\ s[1] # "." /\ s[Len(s)] # "."
    /\ \A i \in 1..(Len(s) - 1) : ~(s[i] = "." /\ s[i + 1] = ".")

\* a|b|c and an integer; .postN; .devN
IsPrePart(s) == Len(s) >= 2 /\ s[1] \in {"a", "b", "c"} /\ IsInteger(Tail(s))
IsPostPart(s) ==
    Len(s) > 5 /\ SubSeq(s, 1, 5) = <<".", "p", "o", "s", "t">> /\ IsInteger(SubSeq(s, 6, Len(s)))
IsDevPart(s) ==
    Len(s) > 4 /\ SubSeq(s, 1, 4) = <<".", "d", "e", "v">> /\ IsInteger(SubSeq(s, 5, Len(s)))

\* FINAL [PRE] [POST] [DEV], then whitespace only
FollowsGrammar(s) ==
    \E a \in 1..Len(s) :
        /\ IsFinalPart(SubSeq(s, 1, a))
        /\ \E b \in a..Len(s) :
             /\ b = a \/ IsPrePart(SubSeq(s, a + 1, b))
             /\ \E c \in b..Len(s) :
                  /\ c = b \/ IsPostPart(SubSeq(s, b + 1, c))
                  /\ \E d \in c..Len(s) :
                       /\ d = c \/ IsDevPart(SubSeq(s, c + 1, d))
                       /\ \A i \in (d + 1)..Len(s) : s[i] \in Whitespace

\* the tags validate_tag is to accept
Accepts(tag, pkg_name) ==
    IF pkg_name = None THEN FollowsGrammar(tag)
    ELSE /\ Len(tag) > Len(pkg_name)
         /\ SubSeq(tag, 1, Len(pkg_name)) = pkg_name
         /\ tag[Len(pkg_name) + 1] = "-"
         /\ FollowsGrammar(SubSeq(tag, Len(pkg_name) + 2, Len(tag)))

\* a valid local-version segment: letters, digits, periods, underscores, hyphens
IsLocalSegment(s) ==
    s # <<>> /\ \A i \in 1..Len(s) : s[i] \in Lower \cup Upper \cup Digits \cup {".", "_", "-"}

\* the number of digits that end s
TrailingDigits(s) ==
    LET ns == {n \in 0..Len(s) : \A i \in (Len(s) - n + 1)..Len(s) : s[i] \in Digits}
    IN CHOOSE n \in ns : \A m \in ns : m <= n

\* s with its rightmost integer increased by k
RightmostIncreased(s, k) ==
    LET n == TrailingDigits(s)
    IN SubSeq(s, 1, Len(s) - n) \o StrOf(IntOf(SubSeq(s, Len(s) - n + 1, Len(s))) + k)

\* r is s without its leading and trailing whitespace
IsTrimOf(r, s) ==
    \E i \in 1..(Len(s) + 1) : \E j \in (i - 1)..Len(s) :
        /\ r = SubSeq(s, i, j)
        /\ \A k \in (1..(i - 1)) \cup ((j + 1)..Len(s)) : s[k] \in Whitespace
        /\ r = <<>> \/ (r[1] \notin Whitespace /\ r[Len(r)] \notin Whitespace)

\* v without a '+git.' local-version suffix
WithoutLocal(v) ==
    IF \E i \in 1..Len(v) : v[i] = "+"
    THEN SubSeq(v, 1, (CHOOSE i \in 1..Len(v) : v[i] = "+" /\ \A j \in 1..(i - 1) : v[j] # "+") - 1)
    ELSE v

Returned(v) == ret.outcome = "returned" /\ ret.wrote /\ ret.value = v

\* the query that failed with input=False reported 'not a repository'
NotARepository ==
    /\ pc = "done"
    /\ call.fault.kind = "stderr"
    /\ call.fault.at # "rev-list"
    /\ call.fault.at \in Range(trace)

CoreQueries ==
    <<"ls-files", "branch", "describe --long", "describe --abbrev=0", "rev-list", "log">>
AuxQueries == <<"reflog", "show-branch", "for-each-ref">>

----------------------------------------------------------------------------
(* The claims *)

C2_VersionIsPEP440 ==
    (pc = "done" /\ ret.wrote) => FollowsGrammar(WithoutLocal(ret.value))

\* C3: the fallback file holds exactly the version the latest resolution that
\* succeeded returned, a later call without a repository returns that string,
\* and 'unknown' when none ever succeeded and there is no file
C3_FileHoldsLastVersion ==
    /\ lastOK # None => file = lastOK
    /\ (pc = "done" /\ ret.wrote) => (file = ret.value /\ lastOK = ret.value)
    /\ (NotARepository /\ lastOK # None) => (ret.outcome = "returned" /\ ret.value = lastOK)
    /\ (NotARepository /\ lastOK = None /\ loc.file0 = NoFile) =>
           (ret.outcome = "returned" /\ ret.value = S_unknown)

\* C3: a call without a repository returns what an earlier resolution wrote
\* over the file's first contents
C3_Witness ==
    /\ NotARepository
    /\ lastOK = <<"1", ".", "1", "0", ".", "d", "e", "v", "2">>
    /\ ret.value = lastOK
    /\ file = lastOK

\* C4: when a query reports 'not a repository', get_version returns the
\* trimmed contents of the fallback file, or 'unknown' without a file, raises
\* nothing and leaves the file as it was
C4_FallbackOnNotARepository ==
    NotARepository =>
        /\ ret.outcome = "returned"
        /\ ret.exc = "none"
        /\ ~ret.wrote
        /\ file = loc.file0
        /\ IF loc.file0 = NoFile THEN ret.value = S_unknown
           ELSE IsTrimOf(ret.value, loc.file0)

\* C4: the describe query reports 'not a repository' and the file's contents
\* come back without their newline
C4_Witness ==
    /\ NotARepository
    /\ call.fault.at = "describe --long"
    /\ loc.file0 = S_9_9_9_nl
    /\ ret.value = <<"9", ".", "9", ".", "9">>

\* C5: every failure but the 'not a repository' report leaves get_version as
\* an exception and leaves the fallback file as it was
C5_OnlyNotARepositoryCaught ==
    (pc = "done" /\ loc.exc \notin {"none", "EnvironmentError"}) =>
        /\ ret.outcome = "raised"
        /\ ret.exc = loc.exc
        /\ file = loc.file0

\* C6: validate_tag succeeds exactly on the tags that follow FINAL [PRE] [POST]
\* [DEV] plus trailing whitespace, after '<pkg_name>-' when a package name is
\* given, and fails with InvalidTag on every other tag
C6_ValidateTag ==
    vres # "none" =>
        /\ vres \in {"ok", "InvalidTag"}
        /\ vres = "ok" <=> Accepts(vtag, vpkg)

\* C6: a prefixed development tag is accepted
C6_Witness ==
    /\ vres = "ok"
    /\ vpkg = S_p
    /\ vtag = <<"p", "-", "1", ".", "d", "e", "v", "3">>

\* C7: for every validated tag T, with 'T-N-gH' as the long describe and T as
\* the abbreviated one, git_info yields commits = N and sha = H
C7_DescribeParsed ==
    (/\ trace # <<>>
     /\ trace[Len(trace)] = "describe --abbrev=0"
     /\ call.fault.at # "describe --abbrev=0"
     /\ Accepts(call.repo.tag, call.pkg_name)) =>
        /\ loc.exc = "none"
        /\ loc.commits = call.repo.commits
        /\ loc.sha = SubSeq(HeadCommit(call.repo.commits), 1, 7)

\* the tags of the repository whose names do not contain '.dev', in order
NonDevTags(tags) ==
    LET idx == {i \in 1..Len(tags) : ~Contains(tags[i], <<".", "d", "e", "v">>)}
    IN [k \in 1..Cardinality(idx) |->
          tags[CHOOSE i \in idx : Cardinality({j \in idx : j <= i}) = k]]

\* C8: get_non_dev_tag returns the last tag without '.dev', validated, and
\* fails with InvalidTag when there is none
C8_NonDevTagOrInvalidTag ==
    (/\ trace # <<>>
     /\ trace[Len(trace)] = "for-each-ref"
     /\ call.fault.at # "for-each-ref") =>
        LET nd == NonDevTags(RepoTags(call.repo))
        IN IF nd # <<>> /\ Accepts(nd[Len(nd)], call.pkg_name)
           THEN loc.nondev = nd[Len(nd)]
           ELSE loc.exc = "InvalidTag"

\* C9: the working directory after a query is the one before it, however the
\* query ends, and so get_version leaves it unchanged
C9_CwdRestored ==
    pc # "idle" => cwd = loc.cwd0

\* C9: the tracked-file check, run in the package's directory, has reported
\* an error and the working directory is the caller's
C9_Witness ==
    /\ pc = "except"
    /\ trace = <<"ls-files">>
    /\ loc.exc = "EnvironmentError"
    /\ cwd = Dir_w
    /\ cwd # dirname(loc.pkg_file)

\* C10: the queries run one at a time in a fixed order, the tag is validated
\* before rev-list, no query follows the first failure, the file is written
\* only after every query succeeded, and the auxiliary queries run only when
\* their rule needs them
C10_QueryOrder ==
    pc # "idle" =>
        /\ IsPrefix(trace, CoreQueries \o AuxQueries)
        /\ "rev-list" \in Range(trace) => Accepts(call.repo.tag, call.pkg_name)
        /\ (call.fault.kind = "stderr" /\ call.fault.at \in Range(trace)) =>
               trace[Len(trace)] = call.fault.at
        /\ (ret.wrote \/ file # loc.file0) =>
               /\ pc = "done" /\ ret.wrote
               /\ IsPrefix(CoreQueries, trace)
               /\ call.fault.at \notin Range(trace)
        /\ "reflog" \in Range(trace) => loc.cmt # loc.tagged_cmt
        /\ "show-branch" \in Range(trace) => loc.cmt # loc.tagged_cmt
        /\ "for-each-ref" \in Range(trace) =>
               /\ loc.cmt # loc.tagged_cmt
               /\ loc.origin = loc.parent
               /\ IsLocalSegment(loc.branch)
        /\ (/\ pc = "done"
            /\ call.fault.at \in Range(AuxQueries)
            /\ loc.cmt # None
            /\ loc.cmt = loc.tagged_cmt) => Returned(loc.tag)

\* C10: a branch-local resolution has run all nine queries and written the file
C10_Witness ==
    /\ pc = "done"
    /\ ret.wrote
    /\ trace = CoreQueries \o AuxQueries

============================================================================
